---- MODULE Spec2Model ----
(***************************************************************************)
(* serde_kafka_primitives: the big-endian fixed-width integer codec of     *)
(* src/io.rs (KafkaSerializer / KafkaDeserializer) and the serde wrappers  *)
(* of src/int.rs (KafkaInt8 .. KafkaInt64).                                *)
(*                                                                         *)
(* Integers of TLC are 32 bits wide.  i8, i16 and i32 values are plain     *)
(* integers; an i64 value is the record [hi, lo] of its two 32-bit words,  *)
(* each held as an i32 bit pattern (value = hi * 2^32 + (lo mod 2^32)).    *)
(***************************************************************************)
EXTENDS Integers, Sequences, FiniteSets, TLC

(***************************************************************************)
(* Bounds of the exploration.                                              *)
(***************************************************************************)
MaxWrites == 2
MaxCalls == 5
MaxCap == 9
MaxFaults == 1
MaxHooks == 2

(***************************************************************************)
(* The values the operations are called with: the minimum and the maximum  *)
(* of each width and one value whose bytes are all different or that the   *)
(* crate's tests use (42, -5).                                             *)
(***************************************************************************)
I32Min == -2147483647 - 1
I32Max == 2147483647

Int8Vals == {-128, -5, 127}
Int16Vals == {-32768, 258, 32767}
Int32Vals == {I32Min, 42, 16909060, I32Max}
Int64Vals == {[hi |-> I32Min, lo |-> 0],
              [hi |-> 16909060, lo |-> 84281096],
              [hi |-> I32Max, lo |-> -1]}

Widths == {8, 16, 32, 64}

Vals(w) == CASE w = 8 -> Int8Vals
             [] w = 16 -> Int16Vals
             [] w = 32 -> Int32Vals
             [] w = 64 -> Int64Vals

\* The value of a call that follows the first one of a session: one for
\* each width, with bytes that are all different where the width allows.
LaterVal(w) == CASE w = 8 -> -5
                 [] w = 16 -> 258
                 [] w = 32 -> 16909060
                 [] w = 64 -> [hi |-> 16909060, lo |-> 84281096]

NBytes(w) == w \div 8

Min(a, b) == IF a < b THEN a ELSE b

Reverse(s) == [i \in 1..Len(s) |-> s[Len(s) + 1 - i]]

(***************************************************************************)
(* Integer <-> bytes.                                                      *)
(***************************************************************************)
\* `val as u8`: the low eight bits of the two's-complement pattern.
AsU8(v) == v % 256

\* `buf[0] as i8`: the byte read as a two's-complement i8.
AsI8(b) == IF b >= 128 THEN b - 256 ELSE b

\* The n bytes of a word, least significant first: byte k is (v >> 8k) as u8,
\* an arithmetic shift (floor division) followed by the truncating cast.
ShiftBytes(n, v) == [k \in 1..n |-> AsU8(v \div (256 ^ (k - 1)))]

to_le_bytes(w, v) ==
    IF w = 64 THEN ShiftBytes(4, v.lo) \o ShiftBytes(4, v.hi)
    ELSE ShiftBytes(NBytes(w), v)

\* The bytes in the order of a little-endian machine's memory.
to_ne_bytes(w, v) ==
    IF w = 64 THEN ShiftBytes(4, v.lo) \o ShiftBytes(4, v.hi)
    ELSE ShiftBytes(NBytes(w), v)

\* iN::to_be_bytes: the bytes of the value, most significant first.
to_be_bytes(w, v) ==
    IF w = 64 THEN Reverse(ShiftBytes(4, v.hi)) \o Reverse(ShiftBytes(4, v.lo))
    ELSE Reverse(ShiftBytes(NBytes(w), v))

\* The word whose big-endian bytes are b: the first byte carries the sign,
\* every later byte shifts the accumulator left by eight bits.
RECURSIVE Accumulate(_, _)
Accumulate(acc, b) ==
    IF b = <<>> THEN acc ELSE Accumulate(acc * 256 + Head(b), Tail(b))

WordFromBE(b) == Accumulate(AsI8(Head(b)), Tail(b))

from_le_bytes(w, b) ==
    IF w = 64 THEN [hi |-> WordFromBE(Reverse(SubSeq(b, 5, 8))),
                    lo |-> WordFromBE(Reverse(SubSeq(b, 1, 4)))]
    ELSE WordFromBE(Reverse(b))

\* iN::from_be_bytes.
from_be_bytes(w, b) ==
    IF w = 64 THEN [hi |-> WordFromBE(SubSeq(b, 1, 4)),
                    lo |-> WordFromBE(SubSeq(b, 5, 8))]
    ELSE WordFromBE(b)


(***************************************************************************)
(* The byte streams.  A sink is a Vec<u8> ("vec": it grows, a write never  *)
(* fails) or any other Write ("stream": it has room for cap bytes and its  *)
(* write calls may accept fewer bytes than offered or fail).  A source is  *)
(* a Cursor over bytes in memory ("cursor") or any other Read ("stream").  *)
(* A script lists what the stream does on the next calls made on it:       *)
(*   "short"  the call transfers one byte only,                            *)
(*   "intr"   the call fails with ErrorKind::Interrupted,                  *)
(*   "err"    the call fails with another error;                           *)
(* once the script is used up a call transfers all it can.  A stream does  *)
(* so at most MaxFaults times while it is in use.                          *)
(***************************************************************************)
Faults == {"short", "intr", "err"}

Scripts == UNION {[1..n -> Faults] : n \in 0..MaxFaults}

InitialSinks == {<<>>, <<171>>}

NoValue == <<>>

\* A write_all that offers the whole buffer again after a short write.
RECURSIVE write_all_restart(_, _, _, _, _)
write_all_restart(s, c, buf, script, trace) ==
    IF buf = <<>>
    THEN [sink |-> s, res |-> "Ok", trace |-> trace, unused |-> script]
    ELSE LET o == IF script = <<>> THEN "ok" ELSE Head(script)
             rest == IF script = <<>> THEN <<>> ELSE Tail(script)
             fit == Min(c - Len(s), Len(buf))
             n == IF o = "short" THEN Min(1, fit) ELSE fit
         IN  CASE o = "err" ->
                    [sink |-> s, res |-> "Other", trace |-> Append(trace, "err"),
                     unused |-> rest]
               [] o = "intr" ->
                    write_all_restart(s, c, buf, rest, Append(trace, "intr"))
               [] OTHER ->
                    IF n = 0
                    THEN [sink |-> s, res |-> "WriteZero",
                          trace |-> Append(trace, "zero"), unused |-> rest]
                    ELSE write_all_restart(s \o SubSeq(buf, 1, n), c,
                                           IF n = Len(buf) THEN <<>> ELSE buf,
                                           rest, Append(trace, "ok"))

\* std::io::Write::write_all over `write`, as KafkaSerializer calls it.
RECURSIVE write_all(_, _, _, _, _)
write_all(s, c, buf, script, trace) ==
    IF buf = <<>>
    THEN [sink |-> s, res |-> "Ok", trace |-> trace, unused |-> script]
    ELSE LET o == IF script = <<>> THEN "ok" ELSE Head(script)
             rest == IF script = <<>> THEN <<>> ELSE Tail(script)
             fit == Min(c - Len(s), Len(buf))
             n == IF o = "short" THEN Min(1, fit) ELSE fit
         IN  CASE o = "err" ->
                    [sink |-> s, res |-> "Other", trace |-> Append(trace, "err"),
                     unused |-> rest]
               [] o = "intr" ->
                    write_all(s, c, buf, rest, Append(trace, "intr"))
               [] OTHER ->
                    IF n = 0
                    THEN [sink |-> s, res |-> "WriteZero",
                          trace |-> Append(trace, "zero"), unused |-> rest]
                    ELSE write_all(s \o SubSeq(buf, 1, n), c,
                                   SubSeq(buf, n + 1, Len(buf)), rest,
                                   Append(trace, "ok"))

\* A writer that keeps the bytes in a buffer of its own.
vec_write_all_buffered(s, buf) == [sink |-> s, res |-> "Ok", trace |-> <<>>, unused |-> <<>>]

\* Vec<u8>::write_all: the bytes are appended, it cannot fail.
vec_write_all(s, buf) ==
    [sink |-> s \o buf, res |-> "Ok", trace |-> <<>>, unused |-> <<>>]

\* A read_exact that calls `read` again after any error.
RECURSIVE read_exact_retry(_, _, _, _, _, _)
read_exact_retry(src, p, need, script, trace, got) ==
    IF need = 0
    THEN [pos |-> p, res |-> "Ok", buf |-> got, trace |-> trace,
          unused |-> script]
    ELSE LET o == IF script = <<>> THEN "ok" ELSE Head(script)
             rest == IF script = <<>> THEN <<>> ELSE Tail(script)
             avail == Min(Len(src) - p, need)
             n == IF o = "short" THEN Min(1, avail) ELSE avail
         IN  CASE o \in {"err", "intr"} ->
                    read_exact_retry(src, p, need, rest, Append(trace, o), got)
               [] OTHER ->
                    IF n = 0
                    THEN [pos |-> p, res |-> "UnexpectedEof", buf |-> got,
                          trace |-> Append(trace, "zero"), unused |-> rest]
                    ELSE read_exact_retry(src, p + n, need - n, rest,
                                          Append(trace, "ok"),
                                          got \o SubSeq(src, p + 1, p + n))

\* std::io::Read::read_exact over `read`, as KafkaDeserializer calls it.
RECURSIVE read_exact(_, _, _, _, _, _)
read_exact(src, p, need, script, trace, got) ==
    IF need = 0
    THEN [pos |-> p, res |-> "Ok", buf |-> got, trace |-> trace,
          unused |-> script]
    ELSE LET o == IF script = <<>> THEN "ok" ELSE Head(script)
             rest == IF script = <<>> THEN <<>> ELSE Tail(script)
             avail == Min(Len(src) - p, need)
             n == IF o = "short" THEN Min(1, avail) ELSE avail
         IN  CASE o = "err" ->
                    [pos |-> p, res |-> "Other", buf |-> got,
                     trace |-> Append(trace, "err"), unused |-> rest]
               [] o = "intr" ->
                    read_exact(src, p, need, rest, Append(trace, "intr"), got)
               [] OTHER ->
                    IF n = 0
                    THEN [pos |-> p, res |-> "UnexpectedEof", buf |-> got,
                          trace |-> Append(trace, "zero"), unused |-> rest]
                    ELSE read_exact(src, p + n, need - n, rest,
                                    Append(trace, "ok"),
                                    got \o SubSeq(src, p + 1, p + n))

\* A Cursor that takes one byte more than asked for.
cursor_read_exact_ahead(src, p, need) ==
    IF need > Len(src) - p
    THEN [pos |-> Len(src), res |-> "UnexpectedEof", buf |-> <<>>,
          trace |-> <<>>, unused |-> <<>>]
    ELSE [pos |-> Min(Len(src), p + need + 1), res |-> "Ok",
          buf |-> SubSeq(src, p + 1, p + need), trace |-> <<>>,
          unused |-> <<>>]

\* A Cursor that stays where it is when the read fails.
cursor_read_exact_keep(src, p, need) ==
    IF need > Len(src) - p
    THEN [pos |-> p, res |-> "UnexpectedEof", buf |-> <<>>, trace |-> <<>>,
          unused |-> <<>>]
    ELSE [pos |-> p + need, res |-> "Ok",
          buf |-> SubSeq(src, p + 1, p + need), trace |-> <<>>,
          unused |-> <<>>]

\* Cursor::read_exact: all the bytes or none; a failure puts the cursor at
\* the end of the data.
cursor_read_exact(src, p, need) ==
    IF need > Len(src) - p
    THEN [pos |-> Len(src), res |-> "UnexpectedEof", buf |-> <<>>,
          trace |-> <<>>, unused |-> <<>>]
    ELSE [pos |-> p + need, res |-> "Ok",
          buf |-> SubSeq(src, p + 1, p + need), trace |-> <<>>,
          unused |-> <<>>]

(***************************************************************************)
(* KafkaSerializer and KafkaDeserializer.                                  *)
(***************************************************************************)
VARIABLES
    wkind,      \* the kind of the writer's sink
    cap,        \* the bytes a "stream" sink has room for in all
    sink0,      \* the sink's contents when the serializer was created
    sink,       \* the sink's contents
    wlog,       \* the writes that returned Ok, in call order
    wfails,     \* the number of writes that returned Err
    phase,      \* "write": the serializer is in use; "read": the deserializer
    rkind,      \* the kind of the reader's source
    source,     \* the source's bytes
    pos,        \* the number of bytes of the source consumed
    rlog,       \* the reads that returned Ok, in call order
    rfails,     \* the number of reads that returned Err
    budget,     \* the short or failing calls the stream in use may still make
    last,       \* the last call and what it returned
    fmt,        \* the format of the serde serializer / deserializer
    hooks,      \* the calls made on the serde framework, in order
    out,        \* the bytes the serde serializer produced last
    scalls      \* the calls made on KafkaIntN values and what they returned

codecVars == <<wkind, cap, sink0, sink, wlog, wfails, phase, rkind, source,
               pos, rlog, rfails, budget, last>>
serdeVars == <<fmt, hooks, out, scalls>>
vars == <<wkind, cap, sink0, sink, wlog, wfails, phase, rkind, source,
          pos, rlog, rfails, budget, last, fmt, hooks, out, scalls>>

NoCall == [op |-> "none", w |-> 0, val |-> NoValue, res |-> "Ok",
           trace |-> <<>>, sinkBefore |-> <<>>, posBefore |-> 0]

\* The bytes write_iW hands to write_all.
Encode(w, v) == IF w = 8 THEN <<AsU8(v)>> ELSE to_be_bytes(w, v)

\* The bytes taken in the machine's order instead of big-endian.
Decode_le(w, b) == IF w = 8 THEN AsI8(b[1]) ELSE from_be_bytes(w, Reverse(b))

\* The value read_iW makes of the bytes read_exact filled in.
Decode(w, b) == IF w = 8 THEN AsI8(b[1]) ELSE from_be_bytes(w, b)

\* `self.writer.write_all(..)` on the sink at hand.
SinkWriteAll(buf, script) ==
    IF wkind = "vec" THEN vec_write_all(sink, buf)
    ELSE write_all(sink, cap, buf, script, <<>>)

\* `self.reader.read_exact(&mut buf)` on the source at hand.
SourceReadExact(need, script) ==
    IF rkind = "cursor" THEN cursor_read_exact(source, pos, need)
    ELSE read_exact(source, pos, need, script, <<>>, <<>>)

\* The result of read_exact dropped: the zero-initialised buffer is decoded
\* with whatever bytes arrived.
ReadResult_unchecked(w, r) ==
    <<Decode(w, r.buf \o [i \in 1..(NBytes(w) - Len(r.buf)) |-> 0])>>

\* `read_exact(&mut buf)?; Ok(iN::from_be_bytes(buf))`: an error returns
\* early, only a filled buffer is decoded.
ReadResult(w, r) == IF r.res = "Ok" THEN <<Decode(w, r.buf)>> ELSE NoValue

\* The calls made so far on the serializer and on the deserializer.
Calls == Len(wlog) + wfails + Len(rlog) + rfails

Write(w, v, script) ==
    /\ phase = "write"
    /\ Len(wlog) + wfails < MaxWrites
    /\ Calls < MaxCalls
    /\ Calls > 0 => v = LaterVal(w)
    /\ wkind = "vec" => script = <<>>
    /\ Len(script) <= budget
    /\ LET r == SinkWriteAll(Encode(w, v), script)
       IN  /\ r.unused = <<>>
           /\ budget' = budget - Len(script)
           /\ sink' = r.sink
           /\ wlog' = IF r.res = "Ok" THEN Append(wlog, [w |-> w, v |-> v])
                      ELSE wlog
           /\ wfails' = IF r.res = "Ok" THEN wfails ELSE wfails + 1
           /\ last' = [op |-> "write", w |-> w, val |-> <<v>>, res |-> r.res,
                       trace |-> r.trace, sinkBefore |-> sink,
                       posBefore |-> 0]
    /\ UNCHANGED <<wkind, cap, sink0, phase, rkind, source, pos, rlog, rfails>>
    /\ UNCHANGED serdeVars

Read(w, script) ==
    /\ phase = "read"
    /\ Calls < MaxCalls
    /\ rkind = "cursor" => script = <<>>
    /\ Len(script) <= budget
    /\ LET r == SourceReadExact(NBytes(w), script)
           val == ReadResult(w, r)
       IN  /\ r.unused = <<>>
           /\ budget' = budget - Len(script)
           /\ pos' = r.pos
           /\ rlog' = IF r.res = "Ok" THEN Append(rlog, [w |-> w, v |-> val[1]])
                      ELSE rlog
           /\ rfails' = IF r.res = "Ok" THEN rfails ELSE rfails + 1
           /\ last' = [op |-> "read", w |-> w, val |-> val, res |-> r.res,
                       trace |-> r.trace, sinkBefore |-> <<>>,
                       posBefore |-> pos]
    /\ UNCHANGED <<wkind, cap, sink0, sink, wlog, wfails, phase, rkind, source>>
    /\ UNCHANGED serdeVars

write_i8 == \E v \in Int8Vals, script \in Scripts : Write(8, v, script)
write_i16 == \E v \in Int16Vals, script \in Scripts : Write(16, v, script)
write_i32 == \E v \in Int32Vals, script \in Scripts : Write(32, v, script)
write_i64 == \E v \in Int64Vals, script \in Scripts : Write(64, v, script)

read_i8 == \E script \in Scripts : Read(8, script)
read_i16 == \E script \in Scripts : Read(16, script)
read_i32 == \E script \in Scripts : Read(32, script)
read_i64 == \E script \in Scripts : Read(64, script)

\* KafkaDeserializer::new(Cursor::new(&buffer)), or over another reader that
\* delivers the bytes of the buffer: the buffer is a Vec that was empty when
\* the serializer was created, as in the crate's tests.
NewDeserializer ==
    /\ phase = "write"
    /\ wkind = "vec"
    /\ sink0 = <<>>
    /\ phase' = "read"
    /\ \E k \in {"cursor", "stream"} : rkind' = k
    /\ source' = sink
    /\ pos' = 0
    /\ budget' = MaxFaults
    /\ last' = NoCall
    /\ UNCHANGED <<wkind, cap, sink0, sink, wlog, wfails, rlog, rfails>>
    /\ UNCHANGED serdeVars

(***************************************************************************)
(* KafkaInt8 .. KafkaInt64 under serde.  The framework is not part of the  *)
(* crate: a format is what a serde Serializer / Deserializer does with a   *)
(* signed integer of a width, here fixed-width big-endian ("be") or        *)
(* fixed-width little-endian ("le") bytes.                                 *)
(***************************************************************************)
Formats == {"be", "le"}

\* Serializer::serialize_iN of the format.
FormatEncode(f, w, v) == IF f = "be" THEN to_be_bytes(w, v) ELSE to_le_bytes(w, v)

\* iN::deserialize on a Deserializer of the format: the integer, or the
\* framework's error when the input is too short.
FormatDecode(f, w, b) ==
    IF Len(b) < NBytes(w) THEN [res |-> "FrameworkError", val |-> NoValue]
    ELSE LET head == SubSeq(b, 1, NBytes(w))
         IN  [res |-> "Ok",
              val |-> <<IF f = "be" THEN from_be_bytes(w, head)
                        ELSE from_le_bytes(w, head)>>]

\* KafkaInt16::serialize written as a copy of KafkaInt32's.
SerializeHook_i32(w) == IF w = 16 THEN 32 ELSE w

\* The width of the serialize_iN hook KafkaIntW::serialize calls.
SerializeHook(w) == w

\* The wrapper forcing the codec's big-endian bytes whatever the format.
SerializedBytes_be(f, w, v) == FormatEncode("be", w, v)

\* What serializer.serialize_iW(self.0) produces: the format's bytes.
SerializedBytes(f, w, v) == FormatEncode(f, SerializeHook(w), v)

\* The width of the integer KafkaIntW::deserialize asks the framework for.
DeserializeHook(w) == w

\* KafkaIntW(val).
KafkaInt(w, val) == [w |-> w, v |-> val]

\* impl Serialize for KafkaIntW: serializer.serialize_iW(self.0).
Serialize(w, v) ==
    /\ phase = "serde"
    /\ Len(hooks) < MaxHooks
    /\ LET self == KafkaInt(w, v)
       IN  /\ hooks' = Append(hooks, [hook |-> "serialize",
                                      w |-> SerializeHook(w),
                                      val |-> <<self.v>>])
           /\ out' = SerializedBytes(fmt, w, self.v)
           /\ scalls' = Append(scalls, [op |-> "serialize", w |-> w,
                                        val |-> <<self>>, res |-> "Ok"])
    /\ UNCHANGED fmt
    /\ UNCHANGED codecVars

\* impl Deserialize for KafkaIntW: let val = iW::deserialize(deserializer)?;
\* Ok(KafkaIntW(val)).
Deserialize(w) ==
    /\ phase = "serde"
    /\ Len(hooks) < MaxHooks
    /\ LET r == FormatDecode(fmt, DeserializeHook(w), out)
       IN  /\ hooks' = Append(hooks, [hook |-> "deserialize",
                                      w |-> DeserializeHook(w), val |-> r.val])
           /\ scalls' = Append(scalls,
                  [op |-> "deserialize", w |-> w,
                   val |-> IF r.res = "Ok" THEN <<KafkaInt(w, r.val[1])>>
                           ELSE NoValue,
                   res |-> r.res])
    /\ UNCHANGED <<fmt, out>>
    /\ UNCHANGED codecVars

serialize_KafkaInt8 == \E v \in Int8Vals : Serialize(8, v)
serialize_KafkaInt16 == \E v \in Int16Vals : Serialize(16, v)
serialize_KafkaInt32 == \E v \in Int32Vals : Serialize(32, v)
serialize_KafkaInt64 == \E v \in Int64Vals : Serialize(64, v)

deserialize_KafkaInt8 == Deserialize(8)
deserialize_KafkaInt16 == Deserialize(16)
deserialize_KafkaInt32 == Deserialize(32)
deserialize_KafkaInt64 == Deserialize(64)

(***************************************************************************)
(* The two paths are independent: a behaviour uses the codec (Spec) or     *)
(* the serde wrappers (SpecSerde).                                         *)
(***************************************************************************)
\* KafkaSerializer::new(writer).
Init ==
    /\ \E k \in {"vec", "stream"}, c \in 0..MaxCap, s0 \in InitialSinks :
          /\ k = "vec" => c = 0
          /\ k = "stream" => Len(s0) <= c
          /\ wkind = k
          /\ cap = c
          /\ sink0 = s0
          /\ sink = s0
    /\ wlog = <<>>
    /\ wfails = 0
    /\ phase = "write"
    /\ rkind = "cursor"
    /\ source = <<>>
    /\ pos = 0
    /\ rlog = <<>>
    /\ rfails = 0
    /\ budget = MaxFaults
    /\ last = NoCall
    /\ fmt = "be"
    /\ hooks = <<>>
    /\ out = <<>>
    /\ scalls = <<>>

Next ==
    \/ write_i8
    \/ write_i16
    \/ write_i32
    \/ write_i64
    \/ NewDeserializer
    \/ read_i8
    \/ read_i16
    \/ read_i32
    \/ read_i64

Spec == Init /\ [][Next]_vars

\* A serde Serializer / Deserializer of some format over an empty document.
InitSerde ==
    /\ wkind = "vec"
    /\ cap = 0
    /\ sink0 = <<>>
    /\ sink = <<>>
    /\ wlog = <<>>
    /\ wfails = 0
    /\ phase = "serde"
    /\ rkind = "cursor"
    /\ source = <<>>
    /\ pos = 0
    /\ rlog = <<>>
    /\ rfails = 0
    /\ budget = MaxFaults
    /\ last = NoCall
    /\ fmt \in Formats
    /\ hooks = <<>>
    /\ out = <<>>
    /\ scalls = <<>>

NextSerde ==
    \/ serialize_KafkaInt8
    \/ serialize_KafkaInt16
    \/ serialize_KafkaInt32
    \/ serialize_KafkaInt64
    \/ deserialize_KafkaInt8
    \/ deserialize_KafkaInt16
    \/ deserialize_KafkaInt32
    \/ deserialize_KafkaInt64

SpecSerde == InitSerde /\ [][NextSerde]_vars

(***************************************************************************)
(* The wire layout as the protocol states it, bit by bit, independently of *)
(* how the code computes it.                                               *)
(***************************************************************************)
\* Bit j (0 the least significant) of the two's-complement pattern of the
\* w-bit value v; the top bit is the sign.
RECURSIVE Bit(_, _, _)
Bit(w, v, j) ==
    IF w = 64 THEN (IF j >= 32 THEN Bit(32, v.hi, j - 32) ELSE Bit(32, v.lo, j))
    ELSE IF j = w - 1 THEN (IF v < 0 THEN 1 ELSE 0)
    ELSE (v \div (2 ^ j)) % 2

\* Byte i (0 the first on the wire) of the w-bit value v: the bits
\* 8*(n-1-i) .. 8*(n-1-i)+7 of the pattern.
WireByte(w, v, i) ==
    LET low == 8 * (NBytes(w) - 1 - i)
        B(b) == Bit(w, v, low + b)
    IN  B(0) + 2 * B(1) + 4 * B(2) + 8 * B(3) + 16 * B(4) + 32 * B(5)
          + 64 * B(6) + 128 * B(7)

Wire(w, v) == [i \in 1..NBytes(w) |-> WireByte(w, v, i - 1)]

\* The wire bytes of a log of calls, in call order.
RECURSIVE WireAll(_)
WireAll(log) ==
    IF log = <<>> THEN <<>>
    ELSE Wire(Head(log).w, Head(log).v) \o WireAll(Tail(log))

\* The number of bytes the calls of a log cover.
RECURSIVE LogBytes(_)
LogBytes(log) ==
    IF log = <<>> THEN 0 ELSE NBytes(Head(log).w) + LogBytes(Tail(log))

Range(f) == {f[i] : i \in DOMAIN f}

WroteOk == last.op = "write" /\ last.res = "Ok"
WriteFailed == last.op = "write" /\ last.res # "Ok"
ReadOk == last.op = "read" /\ last.res = "Ok"
ReadFailed == last.op = "read" /\ last.res # "Ok"

\* The bytes that were left in the source when the last read was called.
Remaining == Len(source) - last.posBefore

\* The last read was the first one, of the width of the only value written.
FirstReadOfOnlyWrite ==
    /\ phase = "read"
    /\ Len(wlog) = 1
    /\ Len(rlog) + rfails = 1
    /\ last.op = "read"
    /\ last.w = wlog[1].w

(***************************************************************************)
(* C1: a value written with write_iW into an empty sink and read back with *)
(* read_iW of the same width is returned exactly, the read succeeding      *)
(* whenever the source itself reports no error.                            *)
(***************************************************************************)
C1_RoundTrip ==
    (FirstReadOfOnlyWrite /\ last.res # "Other")
        => /\ last.res = "Ok"
           /\ last.val = <<wlog[1].v>>

C1_Witness ==
    /\ FirstReadOfOnlyWrite
    /\ rkind = "cursor"
    /\ last.w = 16
    /\ last.res = "Ok"
    /\ wlog[1].v = -32768
    /\ last.val = <<-32768>>

(***************************************************************************)
(* C2: a successful write_iW(v) appends exactly w/8 bytes, byte i holding  *)
(* bits 8*(n-1-i) .. 8*(n-1-i)+7 of v (write_i32(42) gives 0,0,0,42 and    *)
(* write_i8(-5) gives 251), and a successful read_iW returns the value     *)
(* whose layout is the bytes it consumed.                                  *)
(***************************************************************************)
C2_WireLayout ==
    /\ WroteOk => sink = last.sinkBefore \o Wire(last.w, last.val[1])
    /\ WroteOk => Len(sink) = Len(last.sinkBefore) + NBytes(last.w)
    /\ (WroteOk /\ last.w = 32 /\ last.val[1] = 42)
          => sink = last.sinkBefore \o <<0, 0, 0, 42>>
    /\ (WroteOk /\ last.w = 8 /\ last.val[1] = -5)
          => sink = last.sinkBefore \o <<251>>
    /\ ReadOk => SubSeq(source, last.posBefore + 1,
                        last.posBefore + NBytes(last.w))
                    = Wire(last.w, last.val[1])

C2_Witness ==
    /\ WroteOk
    /\ last.w = 32
    /\ last.val[1] = 42
    /\ sink = last.sinkBefore \o <<0, 0, 0, 42>>

(***************************************************************************)
(* C3: read_iW on a source with fewer than w/8 bytes left returns an error *)
(* and no value: the end-of-stream error, or the error the source itself   *)
(* reported.                                                               *)
(***************************************************************************)
C3_ShortRead ==
    (last.op = "read" /\ Remaining < NBytes(last.w))
        => /\ last.val = NoValue
           /\ \/ last.res = "UnexpectedEof"
              \/ last.res = "Other" /\ "err" \in Range(last.trace)

C3_Witness ==
    /\ last.op = "read"
    /\ last.w = 32
    /\ Remaining = 3
    /\ last.res = "UnexpectedEof"
    /\ last.val = NoValue

(***************************************************************************)
(* C4, as claimed: when write_iW (w > 8) fails because the sink cannot     *)
(* take the bytes, the sink's contents are what they were before the call. *)
(***************************************************************************)
C4_Original ==
    (WriteFailed /\ last.w > 8 /\ last.res = "WriteZero")
        => sink = last.sinkBefore

(***************************************************************************)
(* C4, amended: a failed write_iW leaves the sink's previous contents      *)
(* followed by a proper prefix of v's encoding; when the sink had room for *)
(* r < w/8 bytes, that prefix is the first r bytes.                        *)
(***************************************************************************)
C4_FailedWritePrefix ==
    WriteFailed
        => \E j \in 0..(NBytes(last.w) - 1) :
              /\ sink = last.sinkBefore
                          \o SubSeq(Wire(last.w, last.val[1]), 1, j)
              /\ last.res = "WriteZero" => j = cap - Len(last.sinkBefore)

C4_Witness ==
    /\ WriteFailed
    /\ last.w = 32
    /\ last.res = "WriteZero"
    /\ Len(sink) = Len(last.sinkBefore) + 3

(***************************************************************************)
(* C5, as claimed: the first failure of any kind the stream reports,       *)
(* Interrupted included, ends the operation: it is the last call made on   *)
(* the stream and it is what the operation returns.                        *)
(***************************************************************************)
C5_Original ==
    \A i \in 1..Len(last.trace) :
        last.trace[i] \in {"intr", "err"}
            => /\ i = Len(last.trace)
               /\ last.res = (IF last.trace[i] = "intr" THEN "Interrupted"
                              ELSE "Other")

(***************************************************************************)
(* C5, amended: a failure other than Interrupted ends the operation (last  *)
(* call on the stream, returned to the caller); Interrupted is never       *)
(* returned, the stream is called again within the operation.              *)
(***************************************************************************)
C5_ErrorsSurfaced ==
    /\ last.res # "Interrupted"
    /\ \A i \in 1..Len(last.trace) :
          /\ last.trace[i] = "err" => (i = Len(last.trace) /\ last.res = "Other")
          /\ last.trace[i] = "intr" => i < Len(last.trace)

C5_Witness ==
    /\ last.op = "read"
    /\ rkind = "stream"
    /\ last.trace = <<"err">>
    /\ last.res = "Other"
    /\ Remaining >= NBytes(last.w)

(***************************************************************************)
(* C6: while the serializer is in use and every write has succeeded, the   *)
(* sink holds its initial contents followed by the encodings of the values *)
(* written, in call order; a successful write appends exactly w/8 bytes    *)
(* and changes none before.                                                *)
(***************************************************************************)
C6_NoBuffering ==
    /\ (phase = "write" /\ wfails = 0) => sink = sink0 \o WireAll(wlog)
    /\ WroteOk => /\ Len(sink) = Len(last.sinkBefore) + NBytes(last.w)
                  /\ SubSeq(sink, 1, Len(last.sinkBefore)) = last.sinkBefore

C6_Witness ==
    /\ WroteOk
    /\ wfails = 0
    /\ Len(wlog) = 2
    /\ wlog[1].w = 32
    /\ wlog[2].w = 8
    /\ sink0 # <<>>
    /\ Len(sink) = Len(sink0) + 5

(***************************************************************************)
(* C7: a successful read_iW advances the source by exactly w/8 bytes;      *)
(* reading what was written, with the same widths in the same order, gives *)
(* the same values and ends with the source exhausted, where a read of any *)
(* width fails.                                                            *)
(***************************************************************************)
SameWidthsSoFar ==
    /\ phase = "read"
    /\ rfails = 0
    /\ Len(rlog) <= Len(wlog)
    /\ \A i \in 1..Len(rlog) : rlog[i].w = wlog[i].w

C7_ExactConsumption ==
    /\ ReadOk => pos = last.posBefore + NBytes(last.w)
    /\ SameWidthsSoFar
          => /\ \A i \in 1..Len(rlog) : rlog[i].v = wlog[i].v
             /\ pos = LogBytes(rlog)
             /\ Len(rlog) = Len(wlog) => pos = Len(source)
    /\ (last.op = "read" /\ Remaining = 0)
          => (last.res # "Ok" /\ last.val = NoValue)

C7_Witness ==
    /\ phase = "read"
    /\ Len(wlog) = 2
    /\ wlog[1].w = 16
    /\ wlog[2].w = 64
    /\ Len(rlog) = 2
    /\ rlog[1].w = 16
    /\ rlog[2] = wlog[2]
    /\ rfails = 1
    /\ ReadFailed
    /\ Remaining = 0

(***************************************************************************)
(* C10: on a Cursor a read that fails consumes the bytes that were left:   *)
(* the source is at its end, and every later read fails too.               *)
(***************************************************************************)
C10_FailedReadConsumes ==
    (phase = "read" /\ rkind = "cursor" /\ rfails >= 1)
        => /\ pos = Len(source)
           /\ ReadFailed
           /\ last.res = "UnexpectedEof"
           /\ last.val = NoValue

C10_Witness ==
    /\ phase = "read"
    /\ rkind = "cursor"
    /\ rfails = 2
    /\ Len(source) - LogBytes(rlog) = 3
    /\ last.op = "read"
    /\ last.w = 16
    /\ last.res = "UnexpectedEof"

(***************************************************************************)
(* C8: KafkaIntN::serialize makes one call on the framework, serialize_iN  *)
(* with the value unchanged; KafkaIntN::deserialize makes one call, for a  *)
(* signed N-bit integer, and wraps what it gets unchanged; serializing and *)
(* then deserializing the same N gives the value back.                     *)
(***************************************************************************)
LastCall == scalls[Len(scalls)]
LastHook == hooks[Len(hooks)]

C8_WidthMatched ==
    /\ Len(hooks) = Len(scalls)
    /\ (scalls # <<>> /\ LastCall.op = "serialize")
          => /\ LastHook.hook = "serialize"
             /\ LastHook.w = LastCall.w
             /\ LastHook.val = <<LastCall.val[1].v>>
    /\ (scalls # <<>> /\ LastCall.op = "deserialize")
          => /\ LastHook.hook = "deserialize"
             /\ LastHook.w = LastCall.w
             /\ LastCall.res = "Ok"
                   => LastCall.val = <<[w |-> LastCall.w, v |-> LastHook.val[1]]>>
             /\ LastCall.res # "Ok"
                   => (LastCall.val = NoValue /\ LastHook.val = NoValue)
    /\ (/\ Len(scalls) >= 2
        /\ LastCall.op = "deserialize"
        /\ scalls[Len(scalls) - 1].op = "serialize"
        /\ scalls[Len(scalls) - 1].w = LastCall.w)
          => /\ LastCall.res = "Ok"
             /\ LastCall.val = scalls[Len(scalls) - 1].val

C8_Witness ==
    /\ Len(scalls) = 2
    /\ scalls[1].op = "serialize"
    /\ scalls[1].w = 16
    /\ scalls[1].val[1].v = 258
    /\ fmt = "le"
    /\ LastCall.op = "deserialize"
    /\ LastCall.w = 16
    /\ LastCall.val = <<[w |-> 16, v |-> 258]>>

(***************************************************************************)
(* C9: the bytes KafkaIntN::serialize produces are those of the format at  *)
(* hand, not forced to big-endian: under a little-endian format they are   *)
(* the wire bytes reversed, which differ from what write_iN emits for      *)
(* every value whose bytes do not read the same in both directions.        *)
(***************************************************************************)
C9_FormatDecides ==
    (scalls # <<>> /\ LastCall.op = "serialize")
        => LET w == LastCall.w
               v == LastCall.val[1].v
           IN  /\ fmt = "be" => out = Wire(w, v)
               /\ fmt = "le" => out = Reverse(Wire(w, v))
               /\ (fmt = "le" /\ Wire(w, v) # Reverse(Wire(w, v)))
                     => out # Encode(w, v)

C9_Witness ==
    /\ scalls # <<>>
    /\ LastCall.op = "serialize"
    /\ LastCall.w = 16
    /\ LastCall.val[1].v = 258
    /\ fmt = "le"
    /\ out = <<2, 1>>
    /\ Encode(16, 258) = <<1, 2>>

====
